---- MODULE Spec2Model ----
(***************************************************************************)
(* branch-reaper: a model of the grid front end                            *)
(* (src/branch_reaper/experiment/main-tui.py) and of the menu front end    *)
(* (src/branch_reaper/main.py) over one git repository.                    *)
(*                                                                         *)
(* A Python str is a sequence of symbols: the punctuation characters the   *)
(* parser looks at (" ", "*", "[", "]", ":", "/", "-", ">") one per        *)
(* symbol, and every other maximal run of characters (a word) one symbol.  *)
(* An Optional[str] is a sequence of at most one str: <<>> is None.        *)
(***************************************************************************)
EXTENDS Integers, Sequences, FiniteSets, TLC

(***************************************************************************)
(* Python str operations, as load_branches uses them.                      *)
(***************************************************************************)
None == << >>

Some(s) == << s >>

RECURSIVE LStrip(_)
LStrip(s) ==
    IF s # << >> /\ Head(s) = " " THEN LStrip(Tail(s)) ELSE s

RECURSIVE RStrip(_)
RStrip(s) ==
    IF s # << >> /\ s[Len(s)] = " " THEN RStrip(SubSeq(s, 1, Len(s) - 1)) ELSE s

Strip(s) == RStrip(LStrip(s))

StartsWith(s, p) ==
    Len(s) >= Len(p) /\ SubSeq(s, 1, Len(p)) = p

\* c in s, for a one-character c
HasChar(s, c) == \E i \in 1..Len(s) : s[i] = c

\* sub in s, for a longer substring
HasSub(s, sub) ==
    \E i \in 1..(Len(s) - Len(sub) + 1) : SubSeq(s, i, i + Len(sub) - 1) = sub

\* s.index(c): the first position of c (the caller has checked c in s)
Index(s, c) == CHOOSE i \in 1..Len(s) : s[i] = c /\ \A j \in 1..(i - 1) : s[j] # c

\* s.split(c)[0]
BeforeFirst(s, c) ==
    IF HasChar(s, c) THEN SubSeq(s, 1, Index(s, c) - 1) ELSE s

\* s.split(c, 1)[1] (the caller has checked c in s)
AfterFirst(s, c) == SubSeq(s, Index(s, c) + 1, Len(s))

\* s.split(): the maximal runs of non-blank symbols
RECURSIVE SplitWS(_)
SplitWS(s) ==
    LET t == LStrip(s)
    IN  IF t = << >> THEN << >>
        ELSE LET n == IF HasChar(t, " ") THEN Index(t, " ") - 1 ELSE Len(t)
             IN  << SubSeq(t, 1, n) >> \o SplitWS(SubSeq(t, n + 1, Len(t)))

(***************************************************************************)
(* The order of str: by code point, a word as a whole.                     *)
(***************************************************************************)
SymOrder ==
    << " ", "(/wt)", "(HEAD", "*", "+", "-", "/", ":", ">", "WIP", "[", "]",
       "abc1234", "abc1234)", "at", "bug", "detached", "develop", "development",
       "feat", "fix", "gone", "main", "master", "msg", "origin", "trunk", "upstream" >>

SymRank(c) == CHOOSE i \in 1..Len(SymOrder) : SymOrder[i] = c

RECURSIVE StrLess(_, _)
StrLess(a, b) ==
    IF b = << >> THEN FALSE
    ELSE IF a = << >> THEN TRUE
    ELSE IF Head(a) = Head(b) THEN StrLess(Tail(a), Tail(b))
    ELSE SymRank(Head(a)) < SymRank(Head(b))

(***************************************************************************)
(* UnifiedBranch and its properties.                                       *)
(***************************************************************************)
PROTECTED_BRANCHES ==
    { << "main" >>, << "master" >>, << "develop" >>, << "development" >> }

is_protected(branch_name) == branch_name \in PROTECTED_BRANCHES

UnifiedBranch(name, has_local, has_remote, is_gone, is_current, remote_name) ==
    [ name          |-> name,
      has_local     |-> has_local,
      has_remote    |-> has_remote,
      is_gone       |-> is_gone,
      is_current    |-> is_current,
      is_protected  |-> is_protected(name),
      remote_name   |-> remote_name,
      local_marked  |-> FALSE,
      remote_marked |-> FALSE ]

\* variant of status that reports the current branch as local-only
status_current(b) ==
    IF b.is_current THEN "local"
    ELSE IF b.has_local /\ b.has_remote THEN "synced"
    ELSE IF b.has_local /\ b.is_gone THEN "orphan"
    ELSE IF b.has_local THEN "local"
    ELSE "remote"

status(b) ==
    IF b.has_local /\ b.has_remote THEN "synced"
    ELSE IF b.has_local /\ b.is_gone THEN "orphan"
    ELSE IF b.has_local THEN "local"
    ELSE "remote"

\* variant of can_delete_local without the current-branch test
can_delete_local_current(b) == b.has_local /\ ~b.is_protected

can_delete_local(b) == b.has_local /\ ~b.is_current /\ ~b.is_protected

\* variant of can_delete_remote without the protected-branch test
can_delete_remote_any(b) == b.has_remote

can_delete_remote(b) == b.has_remote /\ ~b.is_protected

(***************************************************************************)
(* BranchManager.load_branches: the parse of the two listings and the      *)
(* merge into one entity per name.                                         *)
(***************************************************************************)
Put(m, k, v) == [ x \in (DOMAIN m) \cup {k} |-> IF x = k THEN v ELSE m[x] ]

\* one line of `git branch -vv`: the entity it yields, or None for a line skipped
ParseLocalLine(line) ==
    IF Strip(line) = << >> THEN None
    ELSE
      LET is_current == StartsWith(LStrip(line), << "*" >>)
          clean_line == IF StartsWith(LStrip(line), << "*", " " >>)
                        THEN SubSeq(LStrip(line), 3, Len(LStrip(line)))
                        ELSE LStrip(line)
          parts      == SplitWS(clean_line)
      IN  IF parts = << >> THEN None
          ELSE
            LET name     == parts[1]
                bracket  == HasChar(clean_line, "[") /\ HasChar(clean_line, "]")
                start    == Index(clean_line, "[")
                end      == Index(clean_line, "]")
                \* clean_line[start + 1 : end], empty when end <= start
                tracking_info == SubSeq(clean_line, start + 1, end - 1)
                is_gone  == bracket /\ HasSub(tracking_info, << ":", " ", "gone" >>)
                tracking == IF ~bracket THEN None
                            ELSE Some(Strip(BeforeFirst(tracking_info, ":")))
                remote_name ==
                    IF tracking # None /\ tracking[1] # << >> /\ HasChar(tracking[1], "/")
                    THEN Some(BeforeFirst(tracking[1], "/"))
                    ELSE None
            IN  Some(UnifiedBranch(name, TRUE, tracking # None /\ ~is_gone,
                                   is_gone, is_current, remote_name))

RECURSIVE LocalFacts(_, _)
LocalFacts(lines, branch_map) ==
    IF lines = << >> THEN branch_map
    ELSE LET b == ParseLocalLine(Head(lines))
         IN  LocalFacts(Tail(lines),
                        IF b = None THEN branch_map
                        ELSE Put(branch_map, b[1].name, b[1]))

\* variant of MergeRemoteLine that replaces the entry of a name seen locally by
\* a remote-only one, keeping its is_current
MergeRemoteLine_replace(raw, branch_map) ==
    LET line == Strip(raw)
    IN  IF line = << >> \/ HasSub(line, << "-", ">" >>) \/ ~HasChar(line, "/")
        THEN branch_map
        ELSE LET remote_name == BeforeFirst(line, "/")
                 branch_name == AfterFirst(line, "/")
             IN  Put(branch_map, branch_name,
                     UnifiedBranch(branch_name, FALSE, TRUE, FALSE,
                                   branch_name \in DOMAIN branch_map
                                     /\ branch_map[branch_name].is_current,
                                   Some(remote_name)))

\* variant of MergeRemoteLine that keeps the alias of the local tracking
\* annotation
MergeRemoteLine_keepalias(raw, branch_map) ==
    LET line == Strip(raw)
    IN  IF line = << >> \/ HasSub(line, << "-", ">" >>) \/ ~HasChar(line, "/")
        THEN branch_map
        ELSE
          LET remote_name == BeforeFirst(line, "/")
              branch_name == AfterFirst(line, "/")
          IN  IF branch_name \in DOMAIN branch_map
              THEN Put(branch_map, branch_name,
                       [ branch_map[branch_name] EXCEPT
                           !.has_remote = TRUE,
                           !.remote_name =
                               IF branch_map[branch_name].remote_name = None
                               THEN Some(remote_name)
                               ELSE branch_map[branch_name].remote_name ])
              ELSE Put(branch_map, branch_name,
                       UnifiedBranch(branch_name, FALSE, TRUE, FALSE, FALSE,
                                     Some(remote_name)))

\* one line of `git branch -r` merged into the map
MergeRemoteLine(raw, branch_map) ==
    LET line == Strip(raw)
    IN  IF line = << >> \/ HasSub(line, << "-", ">" >>) THEN branch_map
        ELSE IF ~HasChar(line, "/") THEN branch_map
        ELSE
          LET remote_name == BeforeFirst(line, "/")
              branch_name == AfterFirst(line, "/")
          IN  IF branch_name \in DOMAIN branch_map
              THEN Put(branch_map, branch_name,
                       [ branch_map[branch_name] EXCEPT
                           !.has_remote = TRUE,
                           !.remote_name = Some(remote_name) ])
              ELSE Put(branch_map, branch_name,
                       UnifiedBranch(branch_name, FALSE, TRUE, FALSE, FALSE,
                                     Some(remote_name)))

RECURSIVE RemoteFacts(_, _)
RemoteFacts(lines, branch_map) ==
    IF lines = << >> THEN branch_map
    ELSE RemoteFacts(Tail(lines), MergeRemoteLine(Head(lines), branch_map))

\* variant of KeyLess that orders by name alone
KeyLess_name(a, b) == StrLess(a.name, b.name)

\* the sort key (not b.is_protected, b.name)
KeyLess(a, b) ==
    IF a.is_protected # b.is_protected THEN a.is_protected
    ELSE StrLess(a.name, b.name)

RECURSIVE Sorted(_)
Sorted(S) ==
    IF S = {} THEN << >>
    ELSE LET m == CHOOSE x \in S : \A y \in S \ {x} : KeyLess(x, y)
         IN  << m >> \o Sorted(S \ {m})

EmptyMap == [ x \in {} |-> 0 ]

\* load_branches on the outputs of `git branch -vv` and `git branch -r`, each a
\* sequence of lines (output.split("\n")); << >> is a failed or empty output
load_branches(local_lines, remote_lines) ==
    LET m == RemoteFacts(remote_lines, LocalFacts(local_lines, EmptyMap))
    IN  Sorted({ m[k] : k \in DOMAIN m })

(***************************************************************************)
(* The repository behind the gateway (run_git): the local branches with    *)
(* their configured upstream, the remote-tracking refs, the checked-out    *)
(* branch.  An upstream is an Optional ref; a ref is [alias, name].        *)
(***************************************************************************)
VARIABLES
    isRepo,          \* `git rev-parse --git-dir` succeeds
    repoLocal,       \* local branch name -> Optional upstream ref
    repoRefs,        \* the remote-tracking refs (the remote branches, as fetched)
    repoCurrent      \* Optional name of the checked-out branch

Ref(alias, name) == [ alias |-> alias, name |-> name ]

RefStr(r) == r.alias \o << "/" >> \o r.name

RECURSIVE GitSorted(_)
GitSorted(S) ==
    IF S = {} THEN << >>
    ELSE LET m == CHOOSE x \in S : \A y \in S \ {x} : StrLess(x, y)
         IN  << m >> \o GitSorted(S \ {m})

\* the line of `git branch -vv` for local branch n
GitLocalLine(locals, refs, current, n) ==
    (IF current = Some(n) THEN << "*", " " >> ELSE << " ", " " >>)
    \o n \o << " ", "abc1234", " " >>
    \o (IF locals[n] = None THEN << >>
        ELSE << "[" >> \o RefStr(locals[n][1])
             \o (IF locals[n][1] \in refs THEN << >> ELSE << ":", " ", "gone" >>)
             \o << "]", " " >>)
    \o << "msg" >>

\* result.stdout.strip(), then output.split("\n")
StripOutput(lines) ==
    IF lines = << >> THEN << >>
    ELSE [ i \in 1..Len(lines) |->
             LET a == IF i = 1 THEN LStrip(lines[i]) ELSE lines[i]
             IN  IF i = Len(lines) THEN RStrip(a) ELSE a ]

\* run_git("branch", "-vv")
GitBranchVV(ok, locals, refs, current) ==
    IF ~ok THEN << >>
    ELSE LET names == GitSorted(DOMAIN locals)
         IN  StripOutput([ i \in 1..Len(names) |->
                             GitLocalLine(locals, refs, current, names[i]) ])

\* run_git("branch", "-r"): the HEAD pointer of a cloned origin, then the refs
GitBranchR(ok, refs) ==
    IF ~ok THEN << >>
    ELSE LET names == GitSorted({ RefStr(r) : r \in refs })
             head  == IF Ref(<< "origin" >>, << "main" >>) \in refs
                      THEN << << " ", " ", "origin", "/", "HEAD", " ", "-", ">", " ",
                                 "origin", "/", "main" >> >>
                      ELSE << >>
         IN  StripOutput(head \o [ i \in 1..Len(names) |-> << " ", " " >> \o names[i] ])

\* run_git("branch", "-D", name): git refuses a missing or checked-out branch;
\* ok is whether nothing else (a lock, a permission) makes it fail
GitBranchD(ok, locals, current, name) ==
    ok /\ name \in DOMAIN locals /\ current # Some(name)

\* run_git("push", remote, "--delete", name): the remote refuses a missing ref;
\* ok is whether the network and the remote's permissions let it through
GitPushDelete(ok, refs, remote, name) ==
    ok /\ Ref(remote, name) \in refs

\* what the in-memory state says of the side a delete command is issued for, at
\* the moment of issue
View(present, is_current, protected) ==
    [ present |-> present, is_current |-> is_current, is_protected |-> protected ]

NoView == View(FALSE, FALSE, FALSE)

DelCmd(cmd, remote, name, ok, on) ==
    [ cmd |-> cmd, remote |-> remote, name |-> name, ok |-> ok, on |-> on ]

Cmd(cmd, remote, name, ok) == DelCmd(cmd, remote, name, ok, NoView)

\* the commands of one load_branches
LoadCmds(ok) ==
    << Cmd("branch --show-current", << >>, << >>, ok),
       Cmd("branch -vv", << >>, << >>, ok),
       Cmd("branch -r", << >>, << >>, ok) >>

\* BranchManager.load_branches against the repository
Reconcile(ok, locals, refs, current) ==
    load_branches(GitBranchVV(ok, locals, refs, current), GitBranchR(ok, refs))

(***************************************************************************)
(* The grid front end: BranchReaperApp over BranchManager.                 *)
(***************************************************************************)
VARIABLES
    front,           \* which program runs: "tui" (main-tui.py) or "menu" (main.py)
    phase,           \* "init", then "main" (browsing), "confirm" (ConfirmDialog on
                     \* top), "crashed" (a handler raised), "exited"
    branches,        \* manager.branches
    cursor_row,      \* table.cursor_row
    cursor_column,   \* table.cursor_column
    status_message,  \* self.status_message
    pending,         \* the callbacks call_later has queued and the app has not run
    dialog,          \* ConfirmDialog: the deletions it lists, as << name, side >>,
                     \* and the warnings, as << name, wording >>
    atRequest,       \* manager.branches as it was when the dialog was pushed
    result,          \* deleted and errors of the last handler, a deletion batch or not
    cmds,            \* the gateway commands the last handler issued, in order
    last             \* the handler that ran last

VARIABLES
    local_branches,  \* manager.local_branches of the menu front end
    remote_branches  \* its manager.remote_branches: the names, as "alias/name"

menu == << local_branches, remote_branches >>

\* The inputs and results of the operations run on their own, outside a session:
\* a listing handed to load_branches, an entity handed to its properties.
VARIABLES
    local_lines,     \* the output of `git branch -vv` handed to load_branches
    remote_lines,    \* the output of `git branch -r` handed to load_branches
    entity,          \* a UnifiedBranch, an Optional
    verdict          \* what the properties and the deletable lists returned

VARIABLE
    facts            \* the repository the listing was printed from

probe == << local_lines, remote_lines, facts, entity, verdict >>

NoFacts == [ locals |-> {}, refs |-> {}, detached |-> FALSE, stray |-> FALSE ]

NoVerdict ==
    [ status |-> "", can_delete_local |-> FALSE, can_delete_remote |-> FALSE,
      deletable_local |-> << >>, deletable_remote |-> << >> ]

repo == << isRepo, repoLocal, repoRefs, repoCurrent >>

tui == << phase, branches, cursor_row, cursor_column, status_message, pending,
          dialog, atRequest, result, cmds, last >>

Msg(text, name, n, k) == [ text |-> text, name |-> name, n |-> n, k |-> k ]

NoResult == [ deleted |-> 0, errors |-> << >> ]

\* DataTable.clear() puts the cursor back on the first cell
Cleared == << 0, 0 >>

(***************************************************************************)
(* BranchManager.delete_local_branch / delete_remote_branch.  Each takes   *)
(* the entity and the repository and gives the entity and the repository   *)
(* after, the outcome and the command issued, if one was.                  *)
(***************************************************************************)
\* variant of delete_local_branch that leaves the mark on the deleted side
delete_local_branch_keepmark(branch, locals, current, ok) ==
    IF branch.is_current THEN
        [ success |-> FALSE, msg |-> "Cannot delete current branch",
          branch |-> branch, locals |-> locals, cmds |-> << >> ]
    ELSE IF ~branch.has_local THEN
        [ success |-> FALSE, msg |-> "No local branch to delete",
          branch |-> branch, locals |-> locals, cmds |-> << >> ]
    ELSE
        LET success == GitBranchD(ok, locals, current, branch.name)
            cmd == DelCmd("branch -D", << >>, branch.name, success,
                          View(branch.has_local, branch.is_current, branch.is_protected))
        IN  IF success THEN
                [ success |-> TRUE, msg |-> "Deleted local",
                  branch |-> [ branch EXCEPT !.has_local = FALSE ],
                  locals |-> [ n \in (DOMAIN locals) \ {branch.name} |-> locals[n] ],
                  cmds |-> << cmd >> ]
            ELSE
                [ success |-> FALSE, msg |-> "Failed",
                  branch |-> branch, locals |-> locals, cmds |-> << cmd >> ]

delete_local_branch(branch, locals, current, ok) ==
    IF branch.is_current THEN
        [ success |-> FALSE, msg |-> "Cannot delete current branch",
          branch |-> branch, locals |-> locals, cmds |-> << >> ]
    ELSE IF ~branch.has_local THEN
        [ success |-> FALSE, msg |-> "No local branch to delete",
          branch |-> branch, locals |-> locals, cmds |-> << >> ]
    ELSE
        LET success == GitBranchD(ok, locals, current, branch.name)
        IN  IF success THEN
                [ success |-> TRUE, msg |-> "Deleted local",
                  branch |-> [ branch EXCEPT !.has_local = FALSE,
                                             !.local_marked = FALSE ],
                  locals |-> [ n \in (DOMAIN locals) \ {branch.name} |-> locals[n] ],
                  cmds |-> << DelCmd("branch -D", << >>, branch.name, TRUE,
                                     View(branch.has_local, branch.is_current,
                                          branch.is_protected)) >> ]
            ELSE
                [ success |-> FALSE, msg |-> "Failed",
                  branch |-> branch, locals |-> locals,
                  cmds |-> << DelCmd("branch -D", << >>, branch.name, FALSE,
                                     View(branch.has_local, branch.is_current,
                                          branch.is_protected)) >> ]

delete_remote_branch(branch, refs, ok) ==
    IF ~branch.has_remote THEN
        [ success |-> FALSE, msg |-> "No remote branch to delete",
          branch |-> branch, refs |-> refs, cmds |-> << >> ]
    ELSE
        LET remote  == IF branch.remote_name # None /\ branch.remote_name[1] # << >>
                       THEN branch.remote_name[1] ELSE << "origin" >>
            success == GitPushDelete(ok, refs, remote, branch.name)
        IN  IF success THEN
                [ success |-> TRUE, msg |-> "Deleted remote",
                  branch |-> [ branch EXCEPT !.has_remote = FALSE,
                                             !.remote_marked = FALSE ],
                  refs |-> refs \ { Ref(remote, branch.name) },
                  cmds |-> << DelCmd("push --delete", remote, branch.name, TRUE,
                                     View(branch.has_remote, FALSE,
                                          branch.is_protected)) >> ]
            ELSE
                [ success |-> FALSE, msg |-> "Failed",
                  branch |-> branch, refs |-> refs,
                  cmds |-> << DelCmd("push --delete", remote, branch.name, FALSE,
                                     View(branch.has_remote, FALSE,
                                          branch.is_protected)) >> ]

(***************************************************************************)
(* The loop of handle_delete_confirm over a copy of manager.branches: for  *)
(* each entity the local deletion when local_marked, then the remote one   *)
(* when remote_marked.  okL[i], okR[i] are what the gateway's environment  *)
(* answers for row i.                                                      *)
(***************************************************************************)
\* variant of Tally that records the first error only
Tally_first(st, r) ==
    [ deleted |-> IF r.success THEN st.deleted + 1 ELSE st.deleted,
      errors  |-> IF r.success \/ st.errors # << >> THEN st.errors
                  ELSE Append(st.errors, r.msg) ]

Tally(st, r) ==
    [ deleted |-> IF r.success THEN st.deleted + 1 ELSE st.deleted,
      errors  |-> IF r.success THEN st.errors ELSE Append(st.errors, r.msg) ]

LocalItem(st, i, current, ok) ==
    IF ~st.branches[i].local_marked THEN st
    ELSE LET r == delete_local_branch(st.branches[i], st.locals, current, ok)
         IN  [ st EXCEPT !.branches[i] = r.branch,
                         !.locals = r.locals,
                         !.deleted = Tally(st, r).deleted,
                         !.errors = Tally(st, r).errors,
                         !.cmds = st.cmds \o r.cmds ]

RemoteItem(st, i, ok) ==
    IF ~st.branches[i].remote_marked THEN st
    ELSE LET r == delete_remote_branch(st.branches[i], st.refs, ok)
         IN  [ st EXCEPT !.branches[i] = r.branch,
                         !.refs = r.refs,
                         !.deleted = Tally(st, r).deleted,
                         !.errors = Tally(st, r).errors,
                         !.cmds = st.cmds \o r.cmds ]

\* variant of Batch that stops at the first failed deletion
RECURSIVE Batch_abort(_, _, _, _, _)
Batch_abort(st, i, current, okL, okR) ==
    IF i > Len(st.branches) \/ st.errors # << >> THEN st
    ELSE Batch_abort(RemoteItem(LocalItem(st, i, current, okL[i]), i, okR[i]),
                     i + 1, current, okL, okR)

RECURSIVE Batch(_, _, _, _, _)
Batch(st, i, current, okL, okR) ==
    IF i > Len(st.branches) THEN st
    ELSE Batch(RemoteItem(LocalItem(st, i, current, okL[i]), i, okR[i]),
               i + 1, current, okL, okR)

\* variant of Prune that keeps every entity
Prune_keep(bs) == bs

\* [b for b in self.manager.branches if b.has_local or b.has_remote]
RECURSIVE Prune(_)
Prune(bs) ==
    IF bs = << >> THEN << >>
    ELSE IF Head(bs).has_local \/ Head(bs).has_remote
         THEN << Head(bs) >> \o Prune(Tail(bs))
         ELSE Prune(Tail(bs))

\* the deletions ConfirmDialog.compose lists for the entities it was given
RECURSIVE Deletions(_)
Deletions(bs) ==
    IF bs = << >> THEN << >>
    ELSE (IF Head(bs).local_marked THEN << << Head(bs).name, "local" >> >> ELSE << >>)
         \o (IF Head(bs).remote_marked THEN << << Head(bs).name, "remote" >> >> ELSE << >>)
         \o Deletions(Tail(bs))

\* the warnings ConfirmDialog.compose lists for the entities it was given
RECURSIVE Warnings(_)
Warnings(bs) ==
    IF bs = << >> THEN << >>
    ELSE LET b == Head(bs)
         IN  (IF b.local_marked /\ ~b.has_remote /\ ~b.is_gone
              THEN << << b.name, "only exists locally" >> >>
              ELSE IF b.local_marked /\ b.is_gone
              THEN << << b.name, "has no remote backup" >> >>
              ELSE << >>)
             \o (IF b.remote_marked /\ ~b.has_local
                 THEN << << b.name, "has no local copy" >> >>
                 ELSE << >>)
             \o Warnings(Tail(bs))

NoDialog == [ deletions |-> << >>, warnings |-> << >> ]

(***************************************************************************)
(* The handlers of BranchReaperApp, one action each.                       *)
(***************************************************************************)
MaxPending == 2

FetchCmd(ok) == Cmd("fetch --prune", << >>, << >>, ok)

OnMount ==
    /\ front = "tui" /\ phase = "init"
    /\ last' = "mount"
    /\ UNCHANGED probe
    /\ phase' = "main"
    /\ cmds' = << Cmd("rev-parse --git-dir", << >>, << >>, isRepo) >>
    /\ result' = NoResult
    /\ IF ~isRepo
       THEN /\ status_message' = Msg("Error: Not a git repository!", << >>, 0, 0)
            /\ pending' = pending
       ELSE /\ status_message' = Msg("Fetching from remote...", << >>, 0, 0)
            /\ pending' = Append(pending, "initial_load")
    /\ UNCHANGED menu
    /\ UNCHANGED << front, repo, branches, cursor_row, cursor_column, dialog,
                    atRequest >>

\* initial_load, run by the app when it comes to the callback
initial_load(fetched) ==
    LET loaded == Reconcile(isRepo, repoLocal, repoRefs, repoCurrent)
    IN  /\ branches' = loaded
        /\ cursor_row' = 0
        /\ cursor_column' = IF loaded # << >> THEN 1 ELSE Cleared[2]
        /\ status_message' = Msg("Loaded", << >>, Len(loaded), 0)
        /\ cmds' = << FetchCmd(fetched) >> \o LoadCmds(isRepo)

\* variant of do_refresh that carries the marks of the old working set over to
\* the entities of the same name
do_refresh_keep(fetched) ==
    /\ branches' =
         LET loaded == Reconcile(isRepo, repoLocal, repoRefs, repoCurrent)
         IN  [ i \in 1..Len(loaded) |->
                 [ loaded[i] EXCEPT
                     !.local_marked = \E j \in 1..Len(branches) :
                         branches[j].name = loaded[i].name /\ branches[j].local_marked,
                     !.remote_marked = \E j \in 1..Len(branches) :
                         branches[j].name = loaded[i].name /\ branches[j].remote_marked ] ]
    /\ cursor_row' = Cleared[1]
    /\ cursor_column' = Cleared[2]
    /\ status_message' = IF fetched
                         THEN Msg("Fetched and pruned successfully", << >>, 0, 0)
                         ELSE Msg("Fetch failed", << >>, 0, 0)
    /\ cmds' = << FetchCmd(fetched) >> \o LoadCmds(isRepo)

\* variant of do_refresh that keeps the entity the working set already has for
\* a branch the listing still shows
do_refresh_merge(fetched) ==
    /\ branches' =
         LET loaded == Reconcile(isRepo, repoLocal, repoRefs, repoCurrent)
         IN  [ i \in 1..Len(loaded) |->
                 IF \E j \in 1..Len(branches) : branches[j].name = loaded[i].name
                 THEN LET j == CHOOSE j \in 1..Len(branches) :
                                   branches[j].name = loaded[i].name
                      IN  branches[j]
                 ELSE loaded[i] ]
    /\ cursor_row' = Cleared[1]
    /\ cursor_column' = Cleared[2]
    /\ status_message' = IF fetched
                         THEN Msg("Fetched and pruned successfully", << >>, 0, 0)
                         ELSE Msg("Fetch failed", << >>, 0, 0)
    /\ cmds' = << FetchCmd(fetched) >> \o LoadCmds(isRepo)

\* do_refresh, run by the app when it comes to the callback
do_refresh(fetched) ==
    /\ branches' = Reconcile(isRepo, repoLocal, repoRefs, repoCurrent)
    /\ cursor_row' = Cleared[1]
    /\ cursor_column' = Cleared[2]
    /\ status_message' = IF fetched
                         THEN Msg("Fetched and pruned successfully", << >>, 0, 0)
                         ELSE Msg("Fetch failed", << >>, 0, 0)
    /\ cmds' = << FetchCmd(fetched) >> \o LoadCmds(isRepo)

\* The app runs the oldest queued callback.  With the ConfirmDialog on top, the
\* app's query_one("#branch-table") finds no table (App.children is the active
\* screen alone): refresh_table raises after load_branches has replaced the
\* working set, and the app ends.
RunDeferred ==
    /\ front = "tui" /\ phase \in {"main", "confirm"}
    /\ last' = "deferred"
    /\ UNCHANGED probe
    /\ pending # << >>
    /\ pending' = Tail(pending)
    /\ result' = NoResult
    /\ \E ok \in BOOLEAN :
         LET fetched == ok /\ isRepo
         IN  IF phase = "confirm"
             THEN /\ branches' = Reconcile(isRepo, repoLocal, repoRefs, repoCurrent)
                  /\ cmds' = << FetchCmd(fetched) >> \o LoadCmds(isRepo)
                  /\ phase' = "crashed"
                  /\ UNCHANGED << cursor_row, cursor_column, status_message >>
             ELSE /\ IF Head(pending) = "initial_load"
                     THEN initial_load(fetched)
                     ELSE do_refresh(fetched)
                  /\ phase' = phase
    /\ UNCHANGED menu
    /\ UNCHANGED << front, repo, dialog, atRequest >>

\* variant of action_move_left that redraws from a working set without marks
action_move_left_unmark ==
    /\ front = "tui" /\ phase = "main"
    /\ last' = "move"
    /\ UNCHANGED probe
    /\ cursor_column' = 1
    /\ branches' = [ i \in 1..Len(branches) |->
                       [ branches[i] EXCEPT !.local_marked = FALSE,
                                            !.remote_marked = FALSE ] ]
    /\ cmds' = << >>
    /\ result' = NoResult
    /\ UNCHANGED menu
    /\ UNCHANGED << front, repo, phase, cursor_row, status_message,
                    pending, dialog, atRequest >>

action_move_left ==
    /\ front = "tui" /\ phase = "main"
    /\ last' = "move"
    /\ UNCHANGED probe
    /\ cursor_column' = 1
    /\ cmds' = << >>
    /\ result' = NoResult
    /\ UNCHANGED menu
    /\ UNCHANGED << front, repo, phase, branches, cursor_row, status_message,
                    pending, dialog, atRequest >>

action_move_right ==
    /\ front = "tui" /\ phase = "main"
    /\ last' = "move"
    /\ UNCHANGED probe
    /\ cursor_column' = 2
    /\ cmds' = << >>
    /\ result' = NoResult
    /\ UNCHANGED menu
    /\ UNCHANGED << front, repo, phase, branches, cursor_row, status_message,
                    pending, dialog, atRequest >>

\* the bindings "up" and "down": the table's own cursor_up / cursor_down
cursor_up ==
    /\ front = "tui" /\ phase = "main"
    /\ last' = "move"
    /\ UNCHANGED probe
    /\ cursor_row > 0
    /\ cursor_row' = cursor_row - 1
    /\ cmds' = << >>
    /\ result' = NoResult
    /\ UNCHANGED menu
    /\ UNCHANGED << front, repo, phase, branches, cursor_column, status_message,
                    pending, dialog, atRequest >>

cursor_down ==
    /\ front = "tui" /\ phase = "main"
    /\ last' = "move"
    /\ UNCHANGED probe
    /\ cursor_row + 1 < Len(branches)
    /\ cursor_row' = cursor_row + 1
    /\ cmds' = << >>
    /\ result' = NoResult
    /\ UNCHANGED menu
    /\ UNCHANGED << front, repo, phase, branches, cursor_column, status_message,
                    pending, dialog, atRequest >>

\* action_toggle_mark on the cell (row, col): the working set and the status
\* after.  A row outside the table returns before anything is touched.
\* variant of toggle_mark without the protected-branch test: a protected branch
\* falls through to the other reasons
toggle_mark_unguarded(bs, row, col, old_status) ==
    IF row < 0 \/ row >= Len(bs) THEN
        [ branches |-> bs, status_message |-> old_status ]
    ELSE
        LET branch == bs[row + 1]
        IN  IF col = 1 THEN
                IF can_delete_local(branch) THEN
                    [ branches |->
                          [ bs EXCEPT ![row + 1].local_marked = ~branch.local_marked ],
                      status_message |->
                          Msg(IF ~branch.local_marked THEN "Marked local"
                              ELSE "Unmarked local", branch.name, 0, 0) ]
                ELSE IF branch.is_current THEN
                    [ branches |-> bs,
                      status_message |-> Msg("Cannot delete current branch", << >>, 0, 0) ]
                ELSE
                    [ branches |-> bs,
                      status_message |-> Msg("No local branch to delete", << >>, 0, 0) ]
            ELSE IF col = 2 THEN
                IF can_delete_remote(branch) THEN
                    [ branches |->
                          [ bs EXCEPT ![row + 1].remote_marked = ~branch.remote_marked ],
                      status_message |->
                          Msg(IF ~branch.remote_marked THEN "Marked remote"
                              ELSE "Unmarked remote", branch.name, 0, 0) ]
                ELSE
                    [ branches |-> bs,
                      status_message |-> Msg("No remote branch to delete", << >>, 0, 0) ]
            ELSE
                [ branches |-> bs,
                  status_message |->
                      Msg("Use arrows to select Local or Remote column", << >>, 0, 0) ]

\* variant of toggle_mark that sets the mark of an eligible cell instead of
\* flipping it
toggle_mark_set(bs, row, col, old_status) ==
    IF row < 0 \/ row >= Len(bs) \/ col \notin {1, 2} THEN
        [ branches |-> bs, status_message |-> old_status ]
    ELSE
        LET branch == bs[row + 1]
        IN  IF col = 1 /\ can_delete_local(branch) THEN
                [ branches |-> [ bs EXCEPT ![row + 1].local_marked = TRUE ],
                  status_message |-> Msg("Marked local", branch.name, 0, 0) ]
            ELSE IF col = 2 /\ can_delete_remote(branch) THEN
                [ branches |-> [ bs EXCEPT ![row + 1].remote_marked = TRUE ],
                  status_message |-> Msg("Marked remote", branch.name, 0, 0) ]
            ELSE
                [ branches |-> bs,
                  status_message |->
                      Msg("Cannot delete protected branch", branch.name, 0, 0) ]

toggle_mark(bs, row, col, old_status) ==
    IF row < 0 \/ row >= Len(bs) THEN
        [ branches |-> bs, status_message |-> old_status ]
    ELSE
        LET branch == bs[row + 1]
        IN  IF col = 1 THEN
                IF branch.is_protected THEN
                    [ branches |-> bs,
                      status_message |->
                          Msg("Cannot delete protected branch", branch.name, 0, 0) ]
                ELSE IF can_delete_local(branch) THEN
                    [ branches |->
                          [ bs EXCEPT ![row + 1].local_marked = ~branch.local_marked ],
                      status_message |->
                          Msg(IF ~branch.local_marked THEN "Marked local"
                              ELSE "Unmarked local", branch.name, 0, 0) ]
                ELSE IF branch.is_current THEN
                    [ branches |-> bs,
                      status_message |-> Msg("Cannot delete current branch", << >>, 0, 0) ]
                ELSE
                    [ branches |-> bs,
                      status_message |-> Msg("No local branch to delete", << >>, 0, 0) ]
            ELSE IF col = 2 THEN
                IF branch.is_protected THEN
                    [ branches |-> bs,
                      status_message |->
                          Msg("Cannot delete protected branch", branch.name, 0, 0) ]
                ELSE IF can_delete_remote(branch) THEN
                    [ branches |->
                          [ bs EXCEPT ![row + 1].remote_marked = ~branch.remote_marked ],
                      status_message |->
                          Msg(IF ~branch.remote_marked THEN "Marked remote"
                              ELSE "Unmarked remote", branch.name, 0, 0) ]
                ELSE
                    [ branches |-> bs,
                      status_message |-> Msg("No remote branch to delete", << >>, 0, 0) ]
            ELSE
                [ branches |-> bs,
                  status_message |->
                      Msg("Use arrows to select Local or Remote column", << >>, 0, 0) ]

action_toggle_mark ==
    /\ front = "tui" /\ phase = "main"
    /\ last' = "toggle"
    /\ UNCHANGED probe
    /\ LET r == toggle_mark(branches, cursor_row, cursor_column, status_message)
       IN  /\ branches' = r.branches
           /\ status_message' = r.status_message
    /\ cmds' = << >>
    /\ result' = NoResult
    /\ UNCHANGED menu
    /\ UNCHANGED << front, repo, phase, cursor_row, cursor_column, pending, dialog,
                    atRequest >>

action_refresh ==
    /\ front = "tui" /\ phase = "main"
    /\ last' = "refresh"
    /\ UNCHANGED probe
    /\ Len(pending) < MaxPending
    /\ status_message' = Msg("Refreshing from remote...", << >>, 0, 0)
    /\ pending' = Append(pending, "do_refresh")
    /\ cmds' = << >>
    /\ result' = NoResult
    /\ UNCHANGED menu
    /\ UNCHANGED << front, repo, phase, branches, cursor_row, cursor_column, dialog,
                    atRequest >>

\* action_delete: "rejected" with a reason, or "confirm" with the dialog pushed
\* variant of delete_request without the test for marks
delete_request_unmarked(bs) ==
    IF \A i \in 1..Len(bs) : ~(can_delete_local(bs[i]) \/ can_delete_remote(bs[i]))
    THEN [ to |-> "main",
           status_message |-> Some(Msg("No branches can be deleted", << >>, 0, 0)) ]
    ELSE [ to |-> "confirm", status_message |-> None ]

delete_request(bs) ==
    IF \A i \in 1..Len(bs) : ~(can_delete_local(bs[i]) \/ can_delete_remote(bs[i]))
    THEN [ to |-> "main",
           status_message |-> Some(Msg("No branches can be deleted", << >>, 0, 0)) ]
    ELSE IF \A i \in 1..Len(bs) : ~(bs[i].local_marked \/ bs[i].remote_marked)
    THEN [ to |-> "main",
           status_message |-> Some(Msg("No branches marked for deletion", << >>, 0, 0)) ]
    ELSE [ to |-> "confirm", status_message |-> None ]

action_delete ==
    /\ front = "tui" /\ phase = "main"
    /\ last' = "delete"
    /\ UNCHANGED probe
    /\ LET r == delete_request(branches)
       IN  /\ phase' = r.to
           /\ status_message' = IF r.status_message = None THEN status_message
                                ELSE r.status_message[1]
           /\ dialog' = IF r.to = "confirm"
                        THEN [ deletions |-> Deletions(branches),
                               warnings |-> Warnings(branches) ]
                        ELSE dialog
           /\ atRequest' = IF r.to = "confirm" THEN branches ELSE atRequest
    /\ cmds' = << >>
    /\ result' = NoResult
    /\ UNCHANGED menu
    /\ UNCHANGED << front, repo, branches, cursor_row, cursor_column, pending >>

\* handle_delete_confirm(True): the state the batch leaves
delete_batch(bs, locals, refs, current, okL, okR) ==
    Batch([ branches |-> bs, locals |-> locals, refs |-> refs,
            deleted |-> 0, errors |-> << >>, cmds |-> << >> ],
          1, current, okL, okR)

\* what handle_delete_confirm(True) does after the loop
after_batch(st) ==
    [ branches |-> Prune(st.branches),
      status_message |->
          IF st.errors # << >>
          THEN Msg("Deleted, Errors", << >>, st.deleted, Len(st.errors))
          ELSE Msg("Successfully deleted", << >>, st.deleted, 0) ]

dialog_confirm ==
    /\ front = "tui" /\ phase = "confirm"
    /\ last' = "confirm"
    /\ UNCHANGED probe
    /\ \E okL, okR \in [ 1..Len(branches) -> BOOLEAN ] :
         \* an answer is drawn only for the deletions the batch asks for
         /\ \A i \in 1..Len(branches) :
              /\ ~branches[i].local_marked => okL[i]
              /\ ~branches[i].remote_marked => okR[i]
         /\ LET st == delete_batch(branches, repoLocal, repoRefs, repoCurrent, okL, okR)
            IN  /\ branches' = after_batch(st).branches
                /\ status_message' = after_batch(st).status_message
                /\ repoLocal' = st.locals
                /\ repoRefs' = st.refs
                /\ result' = [ deleted |-> st.deleted, errors |-> st.errors ]
                /\ cmds' = st.cmds
    /\ phase' = "main"
    /\ cursor_row' = Cleared[1]
    /\ cursor_column' = Cleared[2]
    /\ dialog' = NoDialog
    /\ atRequest' = << >>
    /\ UNCHANGED menu
    /\ UNCHANGED << front, isRepo, repoCurrent, pending >>

\* variant of dialog_cancel that drops the marks
dialog_cancel_discard ==
    /\ front = "tui" /\ phase = "confirm"
    /\ last' = "cancel"
    /\ UNCHANGED probe
    /\ phase' = "main"
    /\ status_message' = Msg("Deletion cancelled", << >>, 0, 0)
    /\ branches' = [ i \in 1..Len(branches) |->
                       [ branches[i] EXCEPT !.local_marked = FALSE,
                                            !.remote_marked = FALSE ] ]
    /\ dialog' = NoDialog
    /\ atRequest' = << >>
    /\ cmds' = << >>
    /\ result' = NoResult
    /\ UNCHANGED menu
    /\ UNCHANGED << front, repo, cursor_row, cursor_column, pending >>

dialog_cancel ==
    /\ front = "tui" /\ phase = "confirm"
    /\ last' = "cancel"
    /\ UNCHANGED probe
    /\ phase' = "main"
    /\ status_message' = Msg("Deletion cancelled", << >>, 0, 0)
    /\ dialog' = NoDialog
    /\ atRequest' = << >>
    /\ cmds' = << >>
    /\ result' = NoResult
    /\ UNCHANGED menu
    /\ UNCHANGED << front, repo, branches, cursor_row, cursor_column, pending >>

(***************************************************************************)
(* The menu front end (main.py): BranchManager keeps the two listings      *)
(* apart, as local_branches and remote_branches.                           *)
(***************************************************************************)
\* Branch(name, branch_type=LOCAL, ...); commit_hash and commit_message are
\* only displayed
LocalBranch(name, is_current, tracking, is_gone) ==
    [ name |-> name, is_current |-> is_current, tracking |-> tracking,
      is_gone |-> is_gone ]

\* one line of `git branch -vv`, as main.py's load_branches reads it
menu_parse_local(line) ==
    IF Strip(line) = << >> THEN None
    ELSE
      LET is_current == StartsWith(LStrip(line), << "*" >>)
          clean_line == IF StartsWith(LStrip(line), << "*", " " >>)
                        THEN SubSeq(LStrip(line), 3, Len(LStrip(line)))
                        ELSE LStrip(line)
          parts      == SplitWS(clean_line)
      IN  IF parts = << >> THEN None
          ELSE
            LET bracket == HasChar(clean_line, "[") /\ HasChar(clean_line, "]")
                tracking_info ==
                    SubSeq(clean_line, Index(clean_line, "[") + 1,
                           Index(clean_line, "]") - 1)
            IN  Some(LocalBranch(
                    parts[1], is_current,
                    IF ~bracket THEN None
                    ELSE Some(Strip(BeforeFirst(tracking_info, ":"))),
                    bracket /\ HasSub(tracking_info, << ":", " ", "gone" >>)))

RECURSIVE menu_local_list(_)
menu_local_list(lines) ==
    IF lines = << >> THEN << >>
    ELSE menu_parse_local(Head(lines)) \o menu_local_list(Tail(lines))

RECURSIVE menu_remote_list(_)
menu_remote_list(lines) ==
    IF lines = << >> THEN << >>
    ELSE (IF Strip(Head(lines)) = << >> \/ HasSub(Strip(Head(lines)), << "-", ">" >>)
          THEN << >> ELSE << Strip(Head(lines)) >>)
         \o menu_remote_list(Tail(lines))

\* main.py's load_branches against the repository
menu_load(ok, locals, refs, current) ==
    [ local  |-> menu_local_list(GitBranchVV(ok, locals, refs, current)),
      remote |-> menu_remote_list(GitBranchR(ok, refs)) ]

\* is_protected of delete_remote_branches / delete_both_branches
menu_is_protected(branch_name) ==
    IF HasChar(branch_name, "/")
    THEN AfterFirst(branch_name, "/") \in PROTECTED_BRANCHES
    ELSE branch_name \in PROTECTED_BRANCHES

RECURSIVE SelectSeq2(_, _)
SelectSeq2(seq, keep) ==
    IF seq = << >> THEN << >>
    ELSE (IF Head(seq) \in keep THEN << Head(seq) >> ELSE << >>)
         \o SelectSeq2(Tail(seq), keep)

Range(seq) == { seq[i] : i \in 1..Len(seq) }

\* deletable of delete_local_branches, deletable_local of delete_both_branches
\* variant of menu_deletable_local that offers protected branches too
menu_deletable_local_all(locals) ==
    SelectSeq2(locals, { b \in Range(locals) : ~b.is_current })

menu_deletable_local(locals) ==
    SelectSeq2(locals, { b \in Range(locals) :
                           ~b.is_current /\ b.name \notin PROTECTED_BRANCHES })

\* deletable of delete_remote_branches, deletable_remote of delete_both_branches
menu_deletable_remote(remotes) ==
    SelectSeq2(remotes, { n \in Range(remotes) : ~menu_is_protected(n) })

\* BranchManager.delete_local_branch(branch, force=True) of main.py, on the
\* loop's state st
menu_delete_local(st, branch, current, ok) ==
    IF branch.is_current THEN
        [ st EXCEPT !.errors = Append(st.errors, "Cannot delete current branch") ]
    ELSE
        LET success == GitBranchD(ok, st.locals, current, branch.name)
            cmd == DelCmd("branch -D", << >>, branch.name, success,
                          View(branch \in Range(st.local), branch.is_current,
                               branch.name \in PROTECTED_BRANCHES))
        IN  IF success THEN
                [ st EXCEPT
                    !.local = SelectSeq2(st.local,
                                  { b \in Range(st.local) : b.name # branch.name }),
                    !.locals = [ n \in (DOMAIN st.locals) \ {branch.name} |->
                                   st.locals[n] ],
                    !.deleted = Append(st.deleted, branch.name),
                    !.cmds = Append(st.cmds, cmd) ]
            ELSE [ st EXCEPT !.errors = Append(st.errors, "Failed to delete"),
                             !.cmds = Append(st.cmds, cmd) ]

\* BranchManager.delete_remote_branch(branch) of main.py, on the loop's state st
menu_delete_remote(st, name, ok) ==
    IF ~HasChar(name, "/") THEN
        [ st EXCEPT !.errors = Append(st.errors, "Invalid remote branch format") ]
    ELSE
        LET remote      == BeforeFirst(name, "/")
            branch_name == AfterFirst(name, "/")
            success     == GitPushDelete(ok, st.refs, remote, branch_name)
            cmd == DelCmd("push --delete", remote, branch_name, success,
                          View(name \in Range(st.remote), FALSE,
                               menu_is_protected(name)))
        IN  IF success THEN
                [ st EXCEPT
                    !.remote = SelectSeq2(st.remote,
                                   { n \in Range(st.remote) : n # name }),
                    !.refs = st.refs \ { Ref(remote, branch_name) },
                    !.deleted = Append(st.deleted, name),
                    !.cmds = Append(st.cmds, cmd) ]
            ELSE [ st EXCEPT !.errors = Append(st.errors, "Failed to delete"),
                             !.cmds = Append(st.cmds, cmd) ]

\* for name in selected: branch = next(b for b in deletable if b.name == name)
RECURSIVE menu_local_loop(_, _, _, _)
menu_local_loop(st, selected, current, oks) ==
    IF selected = << >> THEN st
    ELSE menu_local_loop(
             menu_delete_local(st, Head(selected), current, oks[Head(selected).name]),
             Tail(selected), current, oks)

\* for name in selected: branch = next(b for b in manager.remote_branches ...)
RECURSIVE menu_remote_loop(_, _, _)
menu_remote_loop(st, selected, oks) ==
    IF selected = << >> THEN st
    ELSE menu_remote_loop(
             IF Head(selected) \in Range(st.remote)
             THEN menu_delete_remote(st, Head(selected), oks[Head(selected)])
             ELSE st,
             Tail(selected), oks)

MenuState ==
    [ local |-> local_branches, remote |-> remote_branches,
      locals |-> repoLocal, refs |-> repoRefs,
      deleted |-> << >>, errors |-> << >>, cmds |-> << >> ]

\* the subsequences of seq: what the operator ticks in the checkbox
Selections(seq) == { SelectSeq2(seq, K) : K \in SUBSET Range(seq) }

\* main(): the repository check, then fetch_prune and load_branches
menu_main ==
    /\ front = "menu" /\ phase = "init"
    /\ last' = "main"
    /\ UNCHANGED probe
    /\ result' = NoResult
    /\ IF ~isRepo
       THEN /\ phase' = "exit 1"
            /\ cmds' = << Cmd("rev-parse --git-dir", << >>, << >>, FALSE) >>
            /\ UNCHANGED menu
       ELSE \E ok \in BOOLEAN :
              LET l == menu_load(TRUE, repoLocal, repoRefs, repoCurrent)
              IN  /\ phase' = "menu"
                  /\ cmds' = << Cmd("rev-parse --git-dir", << >>, << >>, TRUE),
                                FetchCmd(ok) >> \o LoadCmds(TRUE)
                  /\ local_branches' = l.local
                  /\ remote_branches' = l.remote
    /\ UNCHANGED << front, repo, branches, cursor_row, cursor_column, status_message,
                    pending, dialog, atRequest >>

\* refresh_from_remote: the listings are reloaded only when the fetch succeeded
refresh_from_remote ==
    /\ front = "menu" /\ phase = "menu"
    /\ last' = "refresh"
    /\ UNCHANGED probe
    /\ result' = NoResult
    /\ \E ok \in BOOLEAN :
         LET l == menu_load(TRUE, repoLocal, repoRefs, repoCurrent)
         IN  /\ cmds' = << FetchCmd(ok) >> \o (IF ok THEN LoadCmds(TRUE) ELSE << >>)
             /\ local_branches' = IF ok THEN l.local ELSE local_branches
             /\ remote_branches' = IF ok THEN l.remote ELSE remote_branches
    /\ UNCHANGED << front, repo, phase, branches, cursor_row, cursor_column,
                    status_message, pending, dialog, atRequest >>

\* what a menu handler leaves: the two lists, the repository, the outcome
MenuDone(st, reload) ==
    LET l == menu_load(TRUE, st.locals, st.refs, repoCurrent)
    IN  /\ local_branches' = IF reload THEN l.local ELSE st.local
        /\ remote_branches' = IF reload THEN l.remote ELSE st.remote
        /\ repoLocal' = st.locals
        /\ repoRefs' = st.refs
        /\ result' = [ deleted |-> Len(st.deleted), errors |-> st.errors ]
        /\ cmds' = st.cmds \o (IF reload THEN LoadCmds(TRUE) ELSE << >>)

\* delete_local_branches: nothing deletable, nothing selected and a refused
\* confirmation all return with nothing done
delete_local_branches ==
    /\ front = "menu" /\ phase = "menu"
    /\ last' = "delete_local"
    /\ UNCHANGED probe
    /\ LET deletable == menu_deletable_local(local_branches)
       IN  \E selected \in Selections(deletable), confirm \in BOOLEAN,
              oks \in [ { b.name : b \in Range(deletable) } -> BOOLEAN ] :
             /\ \A b \in Range(deletable) :
                  (b \notin Range(selected) \/ ~confirm) => oks[b.name]
             /\ MenuDone(IF confirm
                         THEN menu_local_loop(MenuState, selected, repoCurrent, oks)
                         ELSE MenuState, FALSE)
    /\ UNCHANGED << front, isRepo, repoCurrent, phase, branches, cursor_row,
                    cursor_column, status_message, pending, dialog, atRequest >>

\* delete_remote_branches: the listings are reloaded when a deletion succeeded
delete_remote_branches ==
    /\ front = "menu" /\ phase = "menu"
    /\ last' = "delete_remote"
    /\ UNCHANGED probe
    /\ LET deletable == menu_deletable_remote(remote_branches)
       IN  \E selected \in Selections(deletable), confirm \in BOOLEAN,
              oks \in [ Range(deletable) -> BOOLEAN ] :
             /\ \A n \in Range(deletable) :
                  (n \notin Range(selected) \/ ~confirm) => oks[n]
             /\ LET st == IF confirm THEN menu_remote_loop(MenuState, selected, oks)
                          ELSE MenuState
                IN  MenuDone(st, st.deleted # << >>)
    /\ UNCHANGED << front, isRepo, repoCurrent, phase, branches, cursor_row,
                    cursor_column, status_message, pending, dialog, atRequest >>

\* delete_both_branches: the local deletions, then the remote ones; the
\* listings are reloaded when a remote branch was selected
delete_both_branches ==
    /\ front = "menu" /\ phase = "menu"
    /\ last' = "delete_both"
    /\ UNCHANGED probe
    /\ LET deletable_local  == menu_deletable_local(local_branches)
           deletable_remote == menu_deletable_remote(remote_branches)
       IN  \E local_selected \in Selections(deletable_local),
              remote_selected \in Selections(deletable_remote),
              confirm \in BOOLEAN,
              okL \in [ { b.name : b \in Range(deletable_local) } -> BOOLEAN ],
              okR \in [ Range(deletable_remote) -> BOOLEAN ] :
             /\ \A b \in Range(deletable_local) :
                  (b \notin Range(local_selected) \/ ~confirm) => okL[b.name]
             /\ \A n \in Range(deletable_remote) :
                  (n \notin Range(remote_selected) \/ ~confirm) => okR[n]
             /\ IF confirm
                THEN MenuDone(
                         menu_remote_loop(
                             menu_local_loop(MenuState, local_selected, repoCurrent, okL),
                             remote_selected, okR),
                         remote_selected # << >>)
                ELSE MenuDone(MenuState, FALSE)
    /\ UNCHANGED << front, isRepo, repoCurrent, phase, branches, cursor_row,
                    cursor_column, status_message, pending, dialog, atRequest >>

(***************************************************************************)
(* The repositories the program is started in.                             *)
(***************************************************************************)
Main == << "main" >>

Feat == << "feat" >>

Bug == << "bug" >>

Origin == << "origin" >>

Upstream == << "upstream" >>

\* Every repository has main, checked out or not, tracking origin/main.  feat
\* exists locally without upstream, locally tracking origin/feat, or not locally;
\* origin and upstream each have a feat or not.  bug exists on origin alone, and
\* only beside a feat that has no remote.
LocalShapes ==
    { f \in [ {Main, Feat} -> {"absent", "plain", "tracking"} ] : f[Main] = "tracking" }

LocalsOf(f) ==
    [ n \in { x \in DOMAIN f : f[x] # "absent" } |->
        IF f[n] = "plain" THEN None ELSE Some(Ref(Origin, n)) ]

RefChoices ==
    { {Ref(Origin, Main)} \cup S :
        S \in { T \in SUBSET {Ref(Origin, Feat), Ref(Upstream, Feat), Ref(Origin, Bug)} :
                  Ref(Origin, Bug) \in T => T = {Ref(Origin, Bug)} } }

vars == << front, repo, tui, menu, probe >>

Init ==
    /\ front \in {"tui", "menu"}
    /\ isRepo \in BOOLEAN
    /\ IF isRepo
       THEN /\ \E f \in LocalShapes : repoLocal = LocalsOf(f)
            /\ repoRefs \in RefChoices
            /\ \E n \in DOMAIN repoLocal : repoCurrent = Some(n)
       ELSE /\ repoLocal = EmptyMap
            /\ repoRefs = {}
            /\ repoCurrent = None
    /\ phase = "init"
    /\ branches = << >>
    /\ cursor_row = 0
    /\ cursor_column = 0
    /\ status_message = Msg("", << >>, 0, 0)
    /\ pending = << >>
    /\ dialog = NoDialog
    /\ atRequest = << >>
    /\ result = NoResult
    /\ cmds = << >>
    /\ last = ""
    /\ local_branches = << >>
    /\ remote_branches = << >>
    /\ local_lines = << >>
    /\ remote_lines = << >>
    /\ entity = None
    /\ verdict = NoVerdict
    /\ facts = NoFacts

Next ==
    \/ OnMount
    \/ RunDeferred
    \/ action_move_left
    \/ action_move_right
    \/ cursor_up
    \/ cursor_down
    \/ action_toggle_mark
    \/ action_refresh
    \/ action_delete
    \/ dialog_confirm
    \/ dialog_cancel
    \/ menu_main
    \/ refresh_from_remote
    \/ delete_local_branches
    \/ delete_remote_branches
    \/ delete_both_branches

Spec == Init /\ [][Next]_vars

(***************************************************************************)
(* The operations on their own.  load_branches is handed the listings git  *)
(* prints for a repository that may have a detached HEAD, branches checked *)
(* out in other worktrees (marked "+", followed by the worktree's path), a *)
(* branch whose upstream is a local branch, and a commit subject with a    *)
(* bracket in it; status and can_delete_* are handed an entity with any    *)
(* combination of fields.                                                  *)
(***************************************************************************)
Fix == << "fix" >>

\* a local branch of the repository: how it is checked out (" " not at all,
\* "*" here, "+" in another worktree), its upstream as git prints it (an
\* Optional str) and the subject of its last commit
LocalFact(name, mark, up, subject) ==
    [ name |-> name, mark |-> mark, up |-> up, subject |-> subject ]

Subject == << "msg" >>

BracketSubject == << "msg", " ", "[", "WIP", "]" >>

\* subjects with a bracket that is never closed, with brackets the wrong way
\* round, and with a bracketed ": gone"
OpenSubject == << "msg", " ", "[", "WIP" >>

ReversedSubject == << "msg", "]", " ", "[", "WIP" >>

GoneSubject == << "msg", " ", "[", "WIP", ":", " ", "gone", "]" >>

Subjects == { Subject, BracketSubject, OpenSubject, ReversedSubject, GoneSubject }

\* a remote-tracking ref directly under refs/remotes, as git-svn keeps them:
\* `git branch -r` prints it without an alias
Trunk == << "trunk" >>

\* run_git("branch", "-r") in that repository
ListingRemote(fs) ==
    LET names == GitSorted({ RefStr(r) : r \in fs.refs }
                           \cup (IF fs.stray THEN { Trunk } ELSE {}))
        head  == IF Ref(<< "origin" >>, << "main" >>) \in fs.refs
                 THEN << << " ", " ", "origin", "/", "HEAD", " ", "-", ">", " ",
                            "origin", "/", "main" >> >>
                 ELSE << >>
    IN  StripOutput(head \o [ i \in 1..Len(names) |-> << " ", " " >> \o names[i] ])

\* the upstream of the fact is configured and its ref is missing
UpGone(f, locals, refs) ==
    /\ f.up # None
    /\ f.up[1] \notin { RefStr(r) : r \in refs }
    /\ f.up[1] \notin { g.name : g \in locals }

\* the line of `git branch -vv` for a local branch
ListingLine(f, locals, refs) ==
    << f.mark, " " >> \o f.name \o << " ", "abc1234", " " >>
    \o (IF f.mark = "+" THEN << "(/wt)", " " >> ELSE << >>)
    \o (IF f.up = None THEN << >>
        ELSE << "[" >> \o f.up[1]
             \o (IF UpGone(f, locals, refs) THEN << ":", " ", "gone" >> ELSE << >>)
             \o << "]", " " >>)
    \o f.subject

\* the line of `git branch -vv` for a detached HEAD
DetachedLine ==
    << "*", " ", "(HEAD", " ", "detached", " ", "at", " ", "abc1234)", " ",
       "abc1234", " ", "msg" >>

\* run_git("branch", "-vv") in that repository: the detached HEAD first, then
\* the branches by name
ListingLocal(fs) ==
    LET names == GitSorted({ f.name : f \in fs.locals })
    IN  StripOutput(
            (IF fs.detached THEN << DetachedLine >> ELSE << >>)
            \o [ i \in 1..Len(names) |->
                   ListingLine(CHOOSE f \in fs.locals : f.name = names[i],
                               fs.locals, fs.refs) ])

\* main, tracking origin/main, checked out or not
MainFacts ==
    { LocalFact(Main, m, Some(RefStr(Ref(Origin, Main))), Subject) : m \in {" ", "*"} }

\* feat, checked out here, elsewhere or nowhere, with no upstream, tracking
\* origin/feat or tracking the local main; or with brackets in its subject
FeatFacts ==
    { LocalFact(Feat, m, u, Subject) :
        m \in {" ", "*", "+"},
        u \in { None, Some(RefStr(Ref(Origin, Feat))), Some(Main) } }
    \cup { LocalFact(Feat, " ", None, s) : s \in Subjects }

\* fix, in another worktree, with no upstream
FixFacts == { LocalFact(Fix, "+", None, Subject) }

Pick(S) == { {} } \cup { {x} : x \in S }

Repositories ==
    { [ locals |-> a \cup b \cup c, refs |-> r, detached |-> d, stray |-> t ] :
        a \in Pick(MainFacts), b \in Pick(FeatFacts), c \in Pick(FixFacts),
        r \in SUBSET { Ref(Origin, Main), Ref(Origin, Feat), Ref(Upstream, Feat),
                       Ref(Origin, Bug) },
        d \in BOOLEAN, t \in BOOLEAN }

\* at most one checkout here: a branch or a detached HEAD
OneHead(fs) ==
    Cardinality({ f \in fs.locals : f.mark = "*" }) + (IF fs.detached THEN 1 ELSE 0) <= 1

Entities ==
    [ name : {Main, Feat}, has_local : BOOLEAN, has_remote : BOOLEAN,
      is_gone : BOOLEAN, is_current : BOOLEAN, is_protected : BOOLEAN,
      remote_name : {None, Some(Origin)},
      local_marked : BOOLEAN, remote_marked : BOOLEAN ]

InitProbe ==
    /\ front \in {"tui", "menu"}
    /\ \/ /\ front = "tui"
          /\ phase = "entity"
          /\ entity \in { Some(e) : e \in Entities }
          /\ facts = NoFacts
       \/ /\ phase = "listing"
          /\ entity = None
          /\ facts \in { fs \in Repositories : OneHead(fs) }
    /\ local_lines = ListingLocal(facts)
    /\ remote_lines = ListingRemote(facts)
    /\ verdict = NoVerdict
    /\ isRepo = TRUE
    /\ repoLocal = EmptyMap
    /\ repoRefs = {}
    /\ repoCurrent = None
    /\ branches = << >>
    /\ cursor_row = 0
    /\ cursor_column = 0
    /\ status_message = Msg("", << >>, 0, 0)
    /\ pending = << >>
    /\ dialog = NoDialog
    /\ atRequest = << >>
    /\ result = NoResult
    /\ cmds = << >>
    /\ last = ""
    /\ local_branches = << >>
    /\ remote_branches = << >>

\* UnifiedBranch.status, can_delete_local, can_delete_remote of the entity
probe_entity ==
    /\ phase = "entity"
    /\ phase' = "probed"
    /\ last' = "probe"
    /\ verdict' = [ verdict EXCEPT
                      !.status = status(entity[1]),
                      !.can_delete_local = can_delete_local(entity[1]),
                      !.can_delete_remote = can_delete_remote(entity[1]) ]
    /\ UNCHANGED << front, repo, branches, cursor_row, cursor_column, status_message,
                    pending, dialog, atRequest, result, cmds, menu, local_lines,
                    remote_lines, facts, entity >>

\* BranchManager.load_branches of main-tui.py on the listings
load_listing ==
    /\ front = "tui" /\ phase = "listing"
    /\ phase' = "loaded"
    /\ last' = "load"
    /\ branches' = load_branches(local_lines, remote_lines)
    /\ cmds' = LoadCmds(TRUE)
    /\ UNCHANGED << front, repo, cursor_row, cursor_column, status_message, pending,
                    dialog, atRequest, result, menu, probe >>

\* BranchManager.load_branches of main.py on the listings, then the lists the
\* delete commands offer
menu_load_listing ==
    /\ front = "menu" /\ phase = "listing"
    /\ phase' = "loaded"
    /\ last' = "load"
    /\ local_branches' = menu_local_list(local_lines)
    /\ remote_branches' = menu_remote_list(remote_lines)
    /\ verdict' = [ verdict EXCEPT
                      !.deletable_local = menu_deletable_local(local_branches'),
                      !.deletable_remote = menu_deletable_remote(remote_branches') ]
    /\ cmds' = LoadCmds(TRUE)
    /\ UNCHANGED << front, repo, branches, cursor_row, cursor_column, status_message,
                    pending, dialog, atRequest, result, local_lines, remote_lines,
                    facts, entity >>

\* BranchManager.delete_remote_branch of main-tui.py on an entity of the loaded
\* working set that has a remote side
push_delete ==
    /\ front = "tui" /\ phase = "loaded"
    /\ phase' = "pushed"
    /\ last' = "push"
    /\ \E i \in 1..Len(branches), ok \in BOOLEAN :
         LET r == delete_remote_branch(branches[i], facts.refs, ok)
         IN  /\ branches[i].has_remote
             /\ entity' = Some(branches[i])
             /\ branches' = [ branches EXCEPT ![i] = r.branch ]
             /\ facts' = [ facts EXCEPT !.refs = r.refs ]
             /\ cmds' = r.cmds
             /\ result' = Tally(NoResult, r)
    /\ UNCHANGED << front, repo, cursor_row, cursor_column, status_message, pending,
                    dialog, atRequest, menu, local_lines, remote_lines, verdict >>

\* BranchManager.delete_local_branch or delete_remote_branch of main-tui.py on
\* the entity, in a repository that has the sides the entity says it has
probe_delete ==
    /\ phase = "entity"
    /\ phase' = "deleted"
    /\ \E local \in BOOLEAN, ok \in BOOLEAN :
         LET b == entity[1]
             remote == IF b.remote_name = None THEN Origin ELSE b.remote_name[1]
             locals == IF b.has_local THEN Put(EmptyMap, b.name, None) ELSE EmptyMap
             refs == IF b.has_remote THEN { Ref(remote, b.name) } ELSE {}
             current == IF b.is_current THEN Some(b.name) ELSE None
             r == IF local THEN delete_local_branch(b, locals, current, ok)
                  ELSE delete_remote_branch(b, refs, ok)
         IN  /\ (r.cmds = << >>) => ok
             /\ branches' = << r.branch >>
             /\ cmds' = r.cmds
             /\ result' = Tally(NoResult, r)
             /\ last' = IF local THEN "delete_local_branch" ELSE "delete_remote_branch"
    /\ UNCHANGED << front, repo, cursor_row, cursor_column, status_message, pending,
                    dialog, atRequest, menu, probe >>

NextProbe ==
    \/ probe_entity
    \/ probe_delete
    \/ load_listing
    \/ menu_load_listing
    \/ push_delete

Probe == InitProbe /\ [][NextProbe]_vars

(***************************************************************************)
(* Properties.                                                             *)
(***************************************************************************)
Grid == front = "tui"

Marked(b) == b.local_marked \/ b.remote_marked

\* the cell under the cursor is the local or remote cell of a row of the table
OnCell == cursor_row < Len(branches) /\ cursor_column \in {1, 2}

ProtectedReason(b) == Msg("Cannot delete protected branch", b.name, 0, 0)

\* C1: in the grid front end no protected entity ever has a mark, and a toggle on
\* the local or remote cell of a protected branch leaves the working set as it
\* was and surfaces the protected-branch reason.
C1_NoProtectedMark ==
    [][ Grid =>
          /\ \A i \in 1..Len(branches') :
               branches'[i].is_protected => ~Marked(branches'[i])
          /\ (last' = "toggle" /\ OnCell /\ branches[cursor_row + 1].is_protected)
               => /\ branches' = branches
                  /\ status_message' = ProtectedReason(branches[cursor_row + 1]) ]_vars

C1_Witness ==
    /\ Grid /\ last = "toggle" /\ OnCell
    /\ branches[cursor_row + 1].is_protected
    /\ status_message.text = "Cannot delete protected branch"

\* C2: in both front ends every delete command is issued for a side that the
\* in-memory state, at the moment of issue, allows to delete: a local delete for
\* a branch with a local side, not current, not protected; a remote delete for a
\* branch with a remote side, not protected.
C2_PolicyAtIssue ==
    \A i \in 1..Len(cmds) :
        /\ cmds[i].cmd = "branch -D" =>
             cmds[i].on.present /\ ~cmds[i].on.is_current /\ ~cmds[i].on.is_protected
        /\ cmds[i].cmd = "push --delete" =>
             cmds[i].on.present /\ ~cmds[i].on.is_protected

C2_Witness ==
    /\ front = "menu" /\ last = "delete_both"
    /\ \E i, j \in 1..Len(cmds) :
         cmds[i].cmd = "branch -D" /\ cmds[j].cmd = "push --delete"

\* the entities of bs named name
Named(bs, name) == { b \in Range(bs) : b.name = name }

\* C3: a confirmed batch attempts every marked (branch, side), in order, whatever
\* the earlier outcomes; a success clears the side's existence flag and mark (and
\* the branch is gone from the repository), a failure leaves both as they were
\* and adds one error; the counts are the numbers of successes and of failures.
C3_BestEffortBatch ==
    [][ (Grid /\ last' = "confirm") =>
          LET items == Deletions(branches)
          IN  /\ Len(cmds') = Len(items)
              /\ \A j \in 1..Len(items) :
                   LET name  == items[j][1]
                       local == items[j][2] = "local"
                       c     == cmds'[j]
                   IN  /\ c.name = name
                       /\ c.cmd = IF local THEN "branch -D" ELSE "push --delete"
                       /\ c.ok =>
                            /\ \A b \in Named(branches', name) :
                                 IF local THEN ~b.has_local /\ ~b.local_marked
                                 ELSE ~b.has_remote /\ ~b.remote_marked
                            /\ IF local THEN name \notin DOMAIN repoLocal'
                               ELSE Ref(c.remote, name) \notin repoRefs'
                       /\ ~c.ok =>
                            /\ \E b \in Named(branches', name) :
                                 IF local THEN b.has_local /\ b.local_marked
                                 ELSE b.has_remote /\ b.remote_marked
                            /\ IF local THEN name \in DOMAIN repoLocal'
                               ELSE (Ref(c.remote, name) \in repoRefs')
                                      = (Ref(c.remote, name) \in repoRefs)
              /\ result'.deleted = Cardinality({ j \in 1..Len(cmds') : cmds'[j].ok })
              /\ Len(result'.errors) = Cardinality({ j \in 1..Len(cmds') : ~cmds'[j].ok })
              /\ status_message'.n = result'.deleted
              /\ status_message'.k = Len(result'.errors) ]_vars

\* the batch of two items whose first succeeds and whose second fails
C3_Witness ==
    /\ Grid /\ last = "confirm"
    /\ Len(cmds) = 2 /\ cmds[1].ok /\ ~cmds[2].ok
    /\ result.deleted = 1 /\ Len(result.errors) = 1

\* C4: after a Confirm, back in the browsing state, every mark is false.
C4_MarksClearedAfterConfirm ==
    (Grid /\ last = "confirm" /\ phase = "main") =>
        \A i \in 1..Len(branches) : ~Marked(branches[i])

Unmark(bs) ==
    [ i \in 1..Len(bs) |-> [ bs[i] EXCEPT !.local_marked = FALSE,
                                          !.remote_marked = FALSE ] ]

\* C5: after a confirmed deletion batch the working set is what a fresh
\* reconciliation of the repository yields, in the grid and in the menu.
C5_ReconciledAfterBatch ==
    /\ (Grid /\ last = "confirm") =>
         Unmark(branches) = Reconcile(isRepo, repoLocal, repoRefs, repoCurrent)
    /\ (front = "menu" /\ last \in {"delete_local", "delete_remote", "delete_both"}) =>
         /\ local_branches = menu_load(TRUE, repoLocal, repoRefs, repoCurrent).local
         /\ remote_branches = menu_load(TRUE, repoLocal, repoRefs, repoCurrent).remote

C7_DeleteRequest ==
    [][ (Grid /\ last' = "delete") =>
          LET anyMark  == \E i \in 1..Len(branches) : Marked(branches[i])
              eligible == \E i \in 1..Len(branches) :
                            \/ branches[i].has_local /\ ~branches[i].is_current
                                 /\ ~branches[i].is_protected
                            \/ branches[i].has_remote /\ ~branches[i].is_protected
          IN  /\ (phase' = "confirm") = anyMark
              /\ branches' = branches /\ repo' = repo /\ cmds' = << >>
              /\ ~anyMark =>
                   /\ phase' = "main"
                   /\ status_message' =
                        IF eligible
                        THEN Msg("No branches marked for deletion", << >>, 0, 0)
                        ELSE Msg("No branches can be deleted", << >>, 0, 0) ]_vars

C7_Witness ==
    /\ Grid /\ last = "delete" /\ phase = "main"
    /\ status_message.text = "No branches marked for deletion"

\* C8: a toggle on the local (remote) cell flips that one mark when the side is
\* eligible; otherwise nothing of the working set changes and a reason is
\* surfaced: protected first, else current branch (local cell), else missing side.
C8_Toggle ==
    [][ (Grid /\ last' = "toggle" /\ OnCell) =>
          LET r     == cursor_row + 1
              b     == branches[r]
              local == cursor_column = 1
              ok    == IF local
                       THEN b.has_local /\ ~b.is_current /\ ~b.is_protected
                       ELSE b.has_remote /\ ~b.is_protected
          IN  IF ok
              THEN branches' =
                     IF local
                     THEN [ branches EXCEPT ![r].local_marked = ~b.local_marked ]
                     ELSE [ branches EXCEPT ![r].remote_marked = ~b.remote_marked ]
              ELSE /\ branches' = branches
                   /\ status_message' =
                        IF b.is_protected THEN ProtectedReason(b)
                        ELSE IF local /\ b.is_current
                        THEN Msg("Cannot delete current branch", << >>, 0, 0)
                        ELSE IF local
                        THEN Msg("No local branch to delete", << >>, 0, 0)
                        ELSE Msg("No remote branch to delete", << >>, 0, 0) ]_vars

C8_Witness ==
    /\ Grid /\ last = "toggle" /\ OnCell
    /\ status_message.text = "Cannot delete current branch"

\* the cell under the cursor is eligible for a mark
EligibleCell ==
    /\ Grid /\ phase = "main" /\ OnCell
    /\ LET b == branches[cursor_row + 1]
       IN  IF cursor_column = 1
           THEN b.has_local /\ ~b.is_current /\ ~b.is_protected
           ELSE b.has_remote /\ ~b.is_protected

\* the working set and the status after two toggles in a row on the cursor's cell
TwoToggles ==
    LET one == toggle_mark(branches, cursor_row, cursor_column, status_message)
    IN  toggle_mark(one.branches, cursor_row, cursor_column, one.status_message)

\* C9, as stated: two toggles in a row on an eligible cell leave the working set,
\* its marks and flags, and the surfaced status as they were.
C9_TwoTogglesRestoreAll ==
    EligibleCell =>
        /\ TwoToggles.branches = branches
        /\ TwoToggles.status_message = status_message

\* C9, amended: two toggles in a row on an eligible cell leave the working set
\* with its marks and flags as it was; the status surfaced is that of the second
\* toggle.
C9_TwoTogglesRestoreSet ==
    EligibleCell =>
        /\ TwoToggles.branches = branches
        /\ TwoToggles.status_message.text \in
             { "Marked local", "Unmarked local", "Marked remote", "Unmarked remote" }
        /\ TwoToggles.status_message.name = branches[cursor_row + 1].name

\* a mark set and taken back: the second of two toggles has run
C9_Witness ==
    /\ EligibleCell /\ last = "toggle"
    /\ status_message.text = "Unmarked local"
    /\ ~branches[cursor_row + 1].local_marked

\* C10: every entity of the working set is in exactly one of the four cases.
C10_ExactlyOneCase ==
    Grid =>
      \A i \in 1..Len(branches) :
        LET b == branches[i]
        IN  Cardinality({ c \in { << 1, b.has_local /\ b.has_remote >>,
                                  << 2, b.has_local /\ b.is_gone >>,
                                  << 3, b.has_local /\ ~b.has_remote /\ ~b.is_gone >>,
                                  << 4, ~b.has_local /\ b.has_remote >> } : c[2] }) = 1

\* C13: whenever the grid front end is browsing, every entity of the working set
\* has a local or a remote side.
C13_NoEmptyEntity ==
    (Grid /\ phase = "main") =>
        \A i \in 1..Len(branches) : branches[i].has_local \/ branches[i].has_remote

\* a batch deleted the last remaining side of an entity, which is gone from the
\* working set
C13_Witness ==
    /\ Grid /\ phase = "main" /\ last = "confirm"
    /\ \E j \in 1..Len(cmds) : cmds[j].ok /\ Named(branches, cmds[j].name) = {}

\* C14: in every state of the grid front end the working set has the protected
\* branches before the unprotected ones, and ascending names within each group.
C14_Ordered ==
    Grid =>
      \A i, j \in 1..Len(branches) :
        i < j =>
          /\ branches[j].is_protected => branches[i].is_protected
          /\ (branches[i].is_protected = branches[j].is_protected)
               => StrLess(branches[i].name, branches[j].name)

\* after a batch that pruned an entity, both groups are still there
C14_Witness ==
    /\ Grid /\ last = "confirm"
    /\ \E j \in 1..Len(cmds) : cmds[j].ok /\ Named(branches, cmds[j].name) = {}
    /\ \E i, j \in 1..Len(branches) :
         branches[i].is_protected /\ ~branches[j].is_protected

\* C15: a reconciliation yields what the listings alone determine, whatever the
\* working set, its marks and its flags were before; run on a working set that
\* is already the reconciliation of the same listings, it yields it again.
C15_LoadIdempotent ==
    [][ (Grid /\ last' = "deferred") =>
          /\ branches' = load_branches(GitBranchVV(isRepo, repoLocal, repoRefs, repoCurrent),
                                       GitBranchR(isRepo, repoRefs))
          /\ repo' = repo
          /\ (branches = Reconcile(isRepo, repoLocal, repoRefs, repoCurrent))
               => branches' = branches ]_vars

\* a refresh has reloaded a working set
C15_Witness ==
    /\ Grid /\ last = "deferred" /\ phase = "main"
    /\ status_message.text \in { "Fetched and pruned successfully", "Fetch failed" }
    /\ Len(branches) > 1

\* C19: in every state of the grid front end an entity that is current has a
\* local side.
C19_CurrentIsLocal ==
    Grid => \A i \in 1..Len(branches) : branches[i].is_current => branches[i].has_local

\* a batch has deleted a local branch beside the current one
C19_Witness ==
    /\ Grid /\ last = "confirm"
    /\ \E j \in 1..Len(cmds) : cmds[j].ok /\ cmds[j].cmd = "branch -D"
    /\ \E i \in 1..Len(branches) : branches[i].is_current

Probed == phase = "probed"

\* C11, as stated: status is one of the four values; it is SYNCED when has_local
\* and has_remote, ORPHAN when has_local and is_gone, LOCAL-only when has_local
\* and neither has_remote nor is_gone, REMOTE-only when has_remote and not
\* has_local.
C11_StatusCases ==
    Probed =>
      LET b == entity[1]
      IN  /\ verdict.status \in {"synced", "orphan", "local", "remote"}
          /\ (b.has_local /\ b.has_remote) => verdict.status = "synced"
          /\ (b.has_local /\ b.is_gone) => verdict.status = "orphan"
          /\ (b.has_local /\ ~b.has_remote /\ ~b.is_gone) => verdict.status = "local"
          /\ (b.has_remote /\ ~b.has_local) => verdict.status = "remote"

\* C11, amended: status is one of the four values, decided by has_local,
\* has_remote and is_gone alone, the cases tried in order: SYNCED when has_local
\* and has_remote (gone or not), else ORPHAN when has_local and is_gone, else
\* LOCAL-only when has_local, else REMOTE-only (with a remote side or with none).
C11_StatusOrderedCases ==
    Probed =>
      LET b == entity[1]
      IN  verdict.status =
            IF b.has_local /\ b.has_remote THEN "synced"
            ELSE IF b.has_local /\ ~b.has_remote /\ b.is_gone THEN "orphan"
            ELSE IF b.has_local /\ ~b.has_remote /\ ~b.is_gone THEN "local"
            ELSE "remote"

\* the entity with a local side, a remote side and a gone upstream
C11_Witness ==
    /\ Probed
    /\ entity[1].has_local /\ entity[1].has_remote /\ entity[1].is_gone
    /\ entity[1].is_current /\ entity[1].local_marked
    /\ verdict.status = "synced"

\* the branch part of a remote branch's name "alias/name"
BranchPart(n) == SubSeq(n, 3, Len(n))

\* C12: can_delete_local is has_local and not is_current and not is_protected,
\* can_delete_remote is has_remote and not is_protected, for every combination of
\* fields; the lists the menu front end offers for deletion are the local
\* branches that are not current and not protected, and the remote branches
\* whose branch name is not protected, in the order of the listings.
C12_Policy ==
    /\ Probed =>
         LET b == entity[1]
         IN  /\ verdict.can_delete_local
                  = (b.has_local /\ ~b.is_current /\ ~b.is_protected)
             /\ verdict.can_delete_remote = (b.has_remote /\ ~b.is_protected)
    /\ (front = "menu" /\ phase = "loaded") =>
         /\ verdict.deletable_local =
              SelectSeq2(local_branches,
                         { b \in Range(local_branches) :
                             ~b.is_current /\ b.name \notin PROTECTED_BRANCHES })
         /\ verdict.deletable_remote =
              SelectSeq2(remote_branches,
                         { n \in Range(remote_branches) :
                             BranchPart(n) \notin PROTECTED_BRANCHES })

\* a protected branch with both sides: neither side may be deleted
C12_Witness ==
    /\ Probed
    /\ entity[1].is_protected /\ entity[1].has_local /\ entity[1].has_remote
    /\ ~entity[1].is_current
    /\ ~verdict.can_delete_local /\ ~verdict.can_delete_remote

Loaded == front = "tui" /\ phase = "loaded"

\* the name field of a local branch's line: the first field after the marker of
\* the current branch
LineKey(f) == IF f.mark = "+" THEN << "+" >> ELSE f.name

\* the lines of the local listing that carry name n
LocalLinesOf(n) == { f \in facts.locals : LineKey(f) = n }

\* C16: after a reconciliation, for every name, has_local is the OR of the local
\* facts observed for the name and has_remote the OR of the facts observed for
\* its remote side (a line of the remote listing, a tracking annotation that is
\* not gone), also when several lines carry the name.
C16_SidesAreOr ==
    Loaded =>
      \A i \in 1..Len(branches) :
        LET b == branches[i]
        IN  (b.name # << "(HEAD" >>) =>
              /\ b.has_local = (LocalLinesOf(b.name) # {})
              /\ b.has_remote =
                   \/ \E r \in facts.refs : r.name = b.name
                   \/ \E f \in LocalLinesOf(b.name) :
                        f.up # None /\ ~UpGone(f, facts.locals, facts.refs)

\* C17: reconciliation yields one entity per branch name observed on either
\* side, with has_local iff the branch is in the local listing, is_gone iff its
\* tracking annotation is marked gone, has_remote iff the branch is in the remote
\* listing or its tracking annotation is not gone, is_protected iff the name is
\* protected.
C17_OneEntityPerBranch ==
    Loaded =>
      /\ { branches[i].name : i \in 1..Len(branches) }
           = { f.name : f \in facts.locals } \cup { r.name : r \in facts.refs }
      /\ \A i, j \in 1..Len(branches) : branches[i].name = branches[j].name => i = j
      /\ \A i \in 1..Len(branches) :
           LET b  == branches[i]
               fs == { f \in facts.locals : f.name = b.name }
           IN  /\ b.has_local = (fs # {})
               /\ b.is_gone = \E f \in fs : UpGone(f, facts.locals, facts.refs)
               /\ b.has_remote =
                    \/ \E r \in facts.refs : r.name = b.name
                    \/ \E f \in fs : f.up # None /\ ~UpGone(f, facts.locals, facts.refs)
               /\ b.is_protected = (b.name \in PROTECTED_BRANCHES)

\* C18: after a reconciliation every branch of the remote listing has has_remote
\* and a remote_name under which the listing has it; a remote delete is pushed
\* to the entity's remote_name, and to origin when it has none.
C18_RemoteAlias ==
    [][ /\ (front = "tui" /\ last' = "load") =>
             \A r \in facts.refs :
               \E i \in 1..Len(branches') :
                 /\ branches'[i].name = r.name
                 /\ branches'[i].has_remote
                 /\ branches'[i].remote_name # None
                 /\ Ref(branches'[i].remote_name[1], r.name) \in facts.refs
        /\ (front = "tui" /\ last' = "push") =>
             \E i \in 1..Len(branches) :
               /\ entity' = Some(branches[i])
               /\ Len(cmds') = 1
               /\ cmds'[1].cmd = "push --delete"
               /\ cmds'[1].name = branches[i].name
               /\ cmds'[1].remote =
                    IF branches[i].remote_name = None THEN << "origin" >>
                    ELSE branches[i].remote_name[1] ]_vars

\* feat tracks origin/feat, which is gone, and is on upstream: the push goes to
\* upstream
C18_Witness ==
    /\ front = "tui" /\ last = "push"
    /\ entity[1].name = Feat /\ entity[1].has_local /\ entity[1].is_gone
    /\ \E f \in facts.locals : f.name = Feat /\ f.up = Some(RefStr(Ref(Origin, Feat)))
    /\ cmds[1].remote = Upstream

\* C20: in a working set produced by reconciliation at most one entity is
\* current, and an entity is current iff it is the checked-out branch.
C20_CurrentIsCheckedOut ==
    Loaded =>
      /\ Cardinality({ i \in 1..Len(branches) : branches[i].is_current }) <= 1
      /\ \A i \in 1..Len(branches) :
           branches[i].is_current
             = \E f \in facts.locals : f.mark = "*" /\ f.name = branches[i].name

(***************************************************************************)
(* The deferred operations of the grid front end.                          *)
(***************************************************************************)
\* C21: in the grid front end at most one deferred operation is outstanding, and
\* while one is outstanding a refresh, a toggle or a delete request is rejected:
\* it queues nothing and changes neither the working set nor the screen.
\* action_refresh calls call_later without looking at what is queued, and no
\* handler tests for an outstanding operation.
C21_SingleSlot ==
    [][ Grid =>
          /\ Len(pending') <= 1
          /\ (pending # << >> /\ last' \in {"refresh", "toggle", "delete"}) =>
                 /\ pending' = pending
                 /\ branches' = branches
                 /\ phase' = phase ]_vars

\* C22: when the directory is not a repository, in both front ends the session
\* ends with status 1 at startup and the only command ever issued is the probe
\* `rev-parse --git-dir`.  The grid front end's on_mount sets the status line and
\* returns: the app keeps running, and a refresh fetches and lists.
C22_NoRepoNoCommands ==
    (~isRepo /\ last # "") =>
        /\ phase = "exit 1"
        /\ \A i \in 1..Len(cmds) : cmds[i].cmd = "rev-parse --git-dir"

\* the deletions a sequence of commands attempted, as << name, side >>
Attempted(cs) ==
    [ i \in 1..Len(cs) |->
        << cs[i].name, IF cs[i].cmd = "branch -D" THEN "local" ELSE "remote" >> ]

\* C23: the dialog lists exactly the marked pairs of the working set at the
\* request; the deletions attempted on Confirm are the listed ones, once each, in
\* order; and a deferred refresh that runs in between leaves the dialog up and
\* the marked pairs of the working set the listed ones.  do_refresh under the
\* dialog replaces the working set by unmarked entities and its refresh_table
\* finds no table.
C23_ConfirmListsMarked ==
    [][ Grid =>
          /\ (last' = "delete" /\ phase' = "confirm") =>
                 dialog'.deletions = Deletions(branches)
          /\ (last' = "confirm") =>
                 /\ Deletions(branches) = dialog.deletions
                 /\ result'.deleted + Len(result'.errors) = Len(dialog.deletions)
                 /\ Attempted(cmds') = dialog.deletions
          /\ (phase = "confirm" /\ last' = "deferred") =>
                 /\ phase' = "confirm"
                 /\ Deletions(branches') = dialog.deletions ]_vars

\* C24: in the confirmation step a local-marked entity is warned exactly when
\* it has no remote side, as "only exists locally" when is_gone is false and as
\* "has no remote backup" when it is true; a remote-marked entity is warned
\* exactly when it has no local side.  compose tests is_gone alone in its second
\* branch, so an entity with a remote side and is_gone is warned as well.
C24_WarnedIffNoCounterpart ==
    (Grid /\ phase = "confirm") =>
        \A i \in 1..Len(atRequest) :
            LET b == atRequest[i]
                warned(wording) == << b.name, wording >> \in Range(dialog.warnings)
            IN  /\ warned("only exists locally") <=>
                       (b.local_marked /\ ~b.has_remote /\ ~b.is_gone)
                /\ warned("has no remote backup") <=>
                       (b.local_marked /\ ~b.has_remote /\ b.is_gone)
                /\ warned("has no local copy") <=>
                       (b.remote_marked /\ ~b.has_local)

\* C25: after a reconciliation in the grid front end (initial_load or
\* do_refresh, the fetch having succeeded or not) every mark of the working set
\* is false, also for the branches that were marked before and still exist.
C25_RefreshDropsMarks ==
    [][ (Grid /\ last' = "deferred") =>
            \A i \in 1..Len(branches') : ~Marked(branches'[i]) ]_vars

\* a refresh has run with a deletion of a branch listed in the dialog, and the
\* branch is still in the working set, unmarked
C25_Witness ==
    /\ Grid /\ last = "deferred"
    /\ \E k \in 1..Len(dialog.deletions), i \in 1..Len(branches) :
         /\ branches[i].name = dialog.deletions[k][1]
         /\ ~Marked(branches[i])

\* C26: after a batch of the grid front end every failed item's reason tells a
\* refusal (no command issued) from a command failure (the command was issued
\* and failed), and the reasons are what the operator is shown.
\* handle_delete_confirm collects the reasons in errors and shows their number
\* only.
C26_ReasonSurfaced ==
    (Grid /\ last = "confirm") =>
        /\ Cardinality({ k \in 1..Len(result.errors) : result.errors[k] = "Failed" })
             = Cardinality({ k \in 1..Len(cmds) : ~cmds[k].ok })
        /\ \A k \in 1..Len(result.errors) :
             status_message.text = result.errors[k]

\* C27: delete_local_branch on an entity that is protected, current or has no
\* local side, and delete_remote_branch on one that is protected or has no
\* remote side, issue no command, fail with a reason and leave the entity as it
\* was.  Neither operation tests is_protected.
C27_Revalidates ==
    (phase = "deleted" /\ entity[1].is_protected = is_protected(entity[1].name)) =>
        LET b == entity[1]
            refused ==
                \/ last = "delete_local_branch"
                     /\ (b.is_protected \/ b.is_current \/ ~b.has_local)
                \/ last = "delete_remote_branch"
                     /\ (b.is_protected \/ ~b.has_remote)
        IN  refused => /\ cmds = << >>
                       /\ result.deleted = 0 /\ Len(result.errors) = 1
                       /\ branches = << b >>

\* C28: in every state of the grid front end a marked local side is eligible
\* (can_delete_local) and a marked remote side is eligible (can_delete_remote):
\* a toggle marks eligible sides only, a deletion that succeeds clears the mark
\* with the side, one that fails leaves both, and a refresh drops every mark.
C28_MarkedIsEligible ==
    Grid =>
        \A i \in 1..Len(branches) :
            /\ branches[i].local_marked => can_delete_local(branches[i])
            /\ branches[i].remote_marked => can_delete_remote(branches[i])

\* a batch deleted one side and failed on another, whose mark is still set
C28_Witness ==
    /\ Grid /\ last = "confirm"
    /\ result.deleted >= 1
    /\ \E i \in 1..Len(branches) :
         /\ Marked(branches[i])
         /\ ~(branches[i].has_local /\ branches[i].has_remote)

\* C29: a confirmed batch ends in the browsing state whatever git answers for
\* each item, and its result counts every marked (branch, side) once: deleted
\* plus the number of error messages is the number of pairs marked at Confirm.
C29_BatchAccountsAll ==
    [][ (Grid /\ phase = "confirm" /\ last' = "confirm") =>
            /\ phase' = "main"
            /\ result'.deleted + Len(result'.errors) = Len(Deletions(branches)) ]_vars

\* a batch of two items that both failed
C29_Witness ==
    /\ Grid /\ last = "confirm" /\ phase = "main"
    /\ result.deleted = 0 /\ Len(result.errors) = 2
    /\ Len(cmds) = 2

\* C30: a cursor move, a toggle, a delete request and a cancel leave the
\* working set's entities, their order and every field but the marks as they
\* were, and issue no command; a cursor move leaves the marks as well.
C30_Frame ==
    [][ (Grid /\ last' \in {"move", "toggle", "delete", "cancel"}) =>
            /\ Unmark(branches') = Unmark(branches)
            /\ cmds' = << >>
            /\ UNCHANGED repo
            /\ (last' = "move") => branches' = branches ]_vars

\* the cursor was moved over a working set that holds a mark
C30_Witness ==
    /\ Grid /\ last = "move" /\ phase = "main"
    /\ \E i \in 1..Len(branches) : Marked(branches[i])

(***************************************************************************)
(* The parse of the listings' lines.                                       *)
(***************************************************************************)
\* the repository with another subject on the last commit of local branch f
WithSubject(fs, f, subject) ==
    [ fs EXCEPT !.locals = (fs.locals \ {f}) \cup { [ f EXCEPT !.subject = subject ] } ]

\* C31: the commit subject at the end of a local line has no weight: the
\* listing with any other subject on one line, brackets and ": gone" included,
\* loads to the same entities, field by field (in the menu front end, to the
\* same local branches).  Both parsers look for "[" and "]" in the whole line,
\* so a line without an annotation takes its tracking from the subject.
C31_CommentIgnored ==
    (phase = "loaded" /\ last = "load") =>
        \A f \in facts.locals, subject \in Subjects :
            LET other == ListingLocal(WithSubject(facts, f, subject))
            IN  /\ (front = "tui") =>
                       load_branches(other, remote_lines) = branches
                /\ (front = "menu") =>
                       menu_local_list(other) = local_branches

\* a line of the remote listing that names no branch of a remote: a symbolic
\* pointer, or a name without an alias
NoRemoteBranch(raw) ==
    HasSub(Strip(raw), << "-", ">" >>) \/ ~HasChar(Strip(raw), "/")

\* C32: in both front ends a line of the remote listing with "->" or without
\* "/" contributes nothing: the grid's working set is the one loaded from the
\* listing without such lines, and the menu's remote_branches and the list it
\* offers for deletion hold no such line.  main.py's load_branches skips the
\* "->" lines only.
C32_InvalidRemoteSkipped ==
    (phase = "loaded" /\ last = "load") =>
        /\ (front = "tui") =>
               branches = load_branches(local_lines,
                              SelectSeq(remote_lines, LAMBDA l : ~NoRemoteBranch(l)))
        /\ (front = "menu") =>
               \A k \in 1..Len(remote_lines) :
                   NoRemoteBranch(remote_lines[k]) =>
                       /\ Strip(remote_lines[k]) \notin Range(remote_branches)
                       /\ Strip(remote_lines[k]) \notin Range(verdict.deletable_remote)

\* the line has an opening "[" and no "]" after it
Malformed(line) ==
    /\ HasChar(line, "[")
    /\ ~HasChar(SubSeq(line, Index(line, "[") + 1, Len(line)), "]")

\* C33: a local line with a "[" that is never closed leaves tracking unset: its
\* entity has has_local, not is_gone, has_remote and remote_name from the remote
\* listing alone, and the other lines still give their entities.  With a "]"
\* before the "[", the slice between them is the empty string, which
\* load_branches takes as a tracking annotation.
C33_MalformedBracket ==
    Loaded =>
        \A f \in facts.locals :
            Malformed(ListingLine(f, facts.locals, facts.refs)) =>
                /\ \E i \in 1..Len(branches) :
                     LET b == branches[i]
                     IN  /\ b.name = LineKey(f)
                         /\ b.has_local /\ ~b.is_gone
                         /\ b.has_remote = \E r \in facts.refs : r.name = b.name
                         /\ (b.remote_name # None) =>
                                Ref(b.remote_name[1], b.name) \in facts.refs
                /\ \A g \in facts.locals \ {f} :
                     \E i \in 1..Len(branches) :
                         branches[i].name = LineKey(g) /\ branches[i].has_local

====
